---------------------------- MODULE Spec2Model ----------------------------
(***************************************************************************)
(* Model of the odds proxy of sports-analytic-platform:                    *)
(*   src/server.js (the v1 server, lines 140-411): the in-memory response  *)
(*   cache, transformDataForFrontend and the /api/v1/nba-data handler;     *)
(*   src/react-dynamic-minimal/src/components/SportsAnalyticWeb.jsx:       *)
(*   calculateWinProbabilityFromOdds.                                      *)
(*                                                                         *)
(* JavaScript strings are sequences of one-character strings, so that      *)
(* toLowerCase() and replace(/ /g, '') are computed character by           *)
(* character.  A JavaScript value that may be null is a tagged record.     *)
(***************************************************************************)
EXTENDS Integers, Sequences, FiniteSets, TLC

VARIABLES
    config,      \* server.js: const config (fixed at process start)
    now,         \* Date.now(), in milliseconds
    cache,       \* server.js: const cache = new Map()
    lastOp,      \* the last direct cache call and what it returned
    written,     \* per key, the last setCachedData call made on it
    reqs,        \* one /api/v1/nba-data handler invocation per request id
    apiData,     \* the argument of transformDataForFrontend
    idx,         \* number of games apiData.forEach has visited
    teamsData,   \* transformDataForFrontend: const teamsData = {}
    threw,       \* transformDataForFrontend: a TypeError left the forEach
    teamA,       \* calculateWinProbabilityFromOdds: first argument
    teamB,       \* calculateWinProbabilityFromOdds: second argument
    winProb      \* calculateWinProbabilityFromOdds: the returned object

vars == <<config, now, cache, lastOp, written, reqs,
          apiData, idx, teamsData, threw, teamA, teamB, winProb>>

cacheVars == <<config, now, cache, lastOp, written>>
serverVars == <<reqs>>
transformVars == <<apiData, idx, teamsData, threw>>
probVars == <<teamA, teamB, winProb>>

-----------------------------------------------------------------------------
(* Bounds of the model *)

MaxGames == 2        \* longest batch of RawGames given to the transform
MaxTicks == 3        \* how many times the clock advances
MaxRequests == 2     \* how many requests are served
MaxOddsMult == 4     \* moneylines range over -MaxOddsMult*50 .. MaxOddsMult*50

-----------------------------------------------------------------------------
(* JavaScript values *)

JsNull == [type |-> "null"]
JsUndefined == [type |-> "undefined"]
JsObject(v) == [type |-> "object", value |-> v]
JsArray(v) == [type |-> "array", value |-> v]

\* if (x): null and undefined are falsy, every object and array is truthy
Truthy(v) == v.type \notin {"null", "undefined"}

-----------------------------------------------------------------------------
(* Strings *)

UpperCase == <<"A","B","C","D","E","F","G","H","I","J","K","L","M",
               "N","O","P","Q","R","S","T","U","V","W","X","Y","Z">>
LowerCase == <<"a","b","c","d","e","f","g","h","i","j","k","l","m",
               "n","o","p","q","r","s","t","u","v","w","x","y","z">>

ToLowerChar(c) ==
    IF \E i \in 1..Len(UpperCase) : UpperCase[i] = c
    THEN LowerCase[CHOOSE i \in 1..Len(UpperCase) : UpperCase[i] = c]
    ELSE c

\* String.prototype.toLowerCase
toLowerCase(s) == [i \in 1..Len(s) |-> ToLowerChar(s[i])]

IsNotSpace(c) == c # " "

\* s.replace(/ /g, '')
removeSpaces(s) == SelectSeq(s, IsNotSpace)

\* const teamId = teamName.toLowerCase().replace(/ /g, '')
teamIdOf(teamName) == removeSpaces(toLowerCase(teamName))

-----------------------------------------------------------------------------
(* transformDataForFrontend: the input universe *)

NameLASpaced == <<"L","A"," ","T","e","a","m">>       \* "LA Team"
NameLAJoined == <<"L","A","T","e","a","m">>           \* "LATeam"
NameBoston == <<"B","o","s","t","o","n">>             \* "Boston"
NameConstructor == <<"C","o","n","s","t","r","u","c","t","o","r">>

Names == {NameLASpaced, NameLAJoined, NameBoston, NameConstructor}
Prices == {-110, 100}

\* one entry of market.outcomes
Outcomes == [name : Names, price : Prices]

H2H(o1, o2) == [key |-> "h2h", outcomes |-> <<o1, o2>>]

SpreadsMarket ==
    [key |-> "spreads",
     outcomes |-> <<[name |-> NameBoston, price |-> -110],
                    [name |-> NameLAJoined, price |-> -110]>>]

Bookmaker(markets) == [key |-> "book", markets |-> markets]

\* a RawGame whose first bookmaker quotes a head-to-head market
H2HGame(o1, o2) == [id |-> "game", bookmakers |-> <<Bookmaker(<<H2H(o1, o2)>>)>>]

\* two different team names, the favorite quoted first
PlainGames ==
    {H2HGame(pair[1], pair[2]) :
        pair \in {p \in Outcomes \X Outcomes :
                    p[1].name # p[2].name /\ p[1].price < p[2].price}}

FixedX == [name |-> NameBoston, price |-> -110]
FixedY == [name |-> NameLASpaced, price |-> 100]

\* the h2h market is not the first market of the first bookmaker
SpreadsFirstGame ==
    [id |-> "game", bookmakers |-> <<Bookmaker(<<SpreadsMarket, H2H(FixedX, FixedY)>>)>>]

\* only the second bookmaker quotes h2h
NoH2HGame ==
    [id |-> "game",
     bookmakers |-> <<Bookmaker(<<SpreadsMarket>>), Bookmaker(<<H2H(FixedX, FixedY)>>)>>]

\* bookmakers: []
EmptyBookmakersGame == [id |-> "game", bookmakers |-> <<>>]

\* no bookmakers property at all
NoBookmakersGame == [id |-> "game"]

\* the first bookmaker has no markets property
NoMarketsGame == [id |-> "game", bookmakers |-> <<[key |-> "book"]>>]

\* an h2h market with a single outcome
OneOutcomeGame ==
    [id |-> "game",
     bookmakers |-> <<Bookmaker(<<[key |-> "h2h", outcomes |-> <<FixedX>>]>>)>>]

MalformedGames == {NoBookmakersGame, NoMarketsGame, OneOutcomeGame}

Games ==
    PlainGames \cup {SpreadsFirstGame, NoH2HGame, EmptyBookmakersGame} \cup MalformedGames

RECURSIVE SeqsUpTo(_, _)
\* all sequences over S of length at most n
SeqsUpTo(S, n) ==
    IF n = 0 THEN {<<>>}
    ELSE LET shorter == SeqsUpTo(S, n - 1)
         IN  shorter \cup {Append(b, g) : b \in {c \in shorter : Len(c) = n - 1}, g \in S}

Batches == SeqsUpTo(Games, MaxGames)

\* values of Math.random(), as far as the model tells them apart
Rand == {0, 1}

-----------------------------------------------------------------------------
(* transformDataForFrontend *)

\* property names every object literal {} inherits from Object.prototype
\* that a lowercased, space-free team id can spell (both are truthy)
InheritedKeys ==
    {<<"c","o","n","s","t","r","u","c","t","o","r">>,
     <<"_","_","p","r","o","t","o","_","_">>}

\* teamsData[teamId] is truthy: an own TeamView or an inherited property
HasTruthyProperty(td, teamId) == teamId \in DOMAIN td \/ teamId \in InheritedKeys

Qualitative ==
    [managementStability |-> "Medium", coachingSystem |-> "Established",
     playerMorale |-> "Optimistic", marketSentiment |-> "Neutral"]

\* the object literal of processTeam; `change` stands for every field drawn
\* from Math.random() (change, changePercent, marketCap, volume,
\* performanceHistory, quantitative)
NewTeamView(teamId, teamName, opposingTeamName, market, r) ==
    [id |-> teamId,
     name |-> teamName,
     conference |-> "N/A",
     price |-> market.price,
     change |-> r,
     qualitative |-> Qualitative,
     upcomingGame |-> [opponent |-> opposingTeamName, moneyline |-> market.price]]

\* processTeam without the `if (!teamsData[teamId])` test
processTeam_Overwrite(td, teamName, opposingTeamName, market, r) ==
    LET teamId == teamIdOf(teamName)
        view == NewTeamView(teamId, teamName, opposingTeamName, market, r)
    IN  [k \in DOMAIN td \cup {teamId} |-> IF k = teamId THEN view ELSE td[k]]

processTeam(td, teamName, opposingTeamName, market, r) ==
    LET teamId == teamIdOf(teamName)
    IN  IF ~HasTruthyProperty(td, teamId)
        THEN td @@ (teamId :> NewTeamView(teamId, teamName, opposingTeamName, market, r))
        ELSE td

\* find that takes the first market whatever its key
FindH2H_FirstMarket(markets) == IF Len(markets) > 0 THEN 1 ELSE 0

\* markets.find(m => m.key === 'h2h'): index of the first match, 0 if none
FindH2H(markets) ==
    IF \E i \in 1..Len(markets) : markets[i].key = "h2h"
    THEN CHOOSE i \in 1..Len(markets) :
            /\ markets[i].key = "h2h"
            /\ \A j \in 1..(i - 1) : markets[j].key # "h2h"
    ELSE 0

Thrown(td) == [teamsData |-> td, threw |-> TRUE]
Passed(td) == [teamsData |-> td, threw |-> FALSE]

\* one call of the forEach callback on `game`, teamsData being td; r1 and r2
\* are the random draws of the two processTeam calls
ProcessGame(td, game, r1, r2) ==
    IF "bookmakers" \notin DOMAIN game
    THEN Thrown(td)                          \* undefined[0]
    ELSE IF Len(game.bookmakers) = 0
    THEN Passed(td)                          \* undefined?.markets
    ELSE LET first == game.bookmakers[1]
         IN  IF "markets" \notin DOMAIN first
             THEN Thrown(td)                 \* undefined.find
             ELSE LET i == FindH2H(first.markets)
                  IN  IF i = 0
                      THEN Passed(td)
                      ELSE LET outcomes == first.markets[i].outcomes
                           IN  IF Len(outcomes) < 2
                               THEN Thrown(td)   \* team2 is undefined: team2.name
                               ELSE LET team1 == outcomes[1]
                                        team2 == outcomes[2]
                                        td1 == processTeam(td, team1.name, team2.name, team1, r1)
                                    IN  Passed(processTeam(td1, team2.name, team1.name, team2, r2))

EmptyObject == [id \in {} |-> 0]

RECURSIVE TransformFrom(_, _, _, _)
\* apiData.forEach from position i on; rs[2k-1], rs[2k] are game k's draws
TransformFrom(td, data, i, rs) ==
    IF i > Len(data) THEN Passed(td)
    ELSE LET step == ProcessGame(td, data[i], rs[2 * i - 1], rs[2 * i])
         IN  IF step.threw THEN step
             ELSE TransformFrom(step.teamsData, data, i + 1, rs)

\* transformDataForFrontend(apiData): the teamsData returned, or the throw
transformDataForFrontend(data, rs) == TransformFrom(EmptyObject, data, 1, rs)

RandTapes(n) == [1..(2 * n) -> Rand]

-----------------------------------------------------------------------------
(* config and the response cache *)

DefaultCacheTtl == 60      \* parseInt(process.env.CACHE_TTL_SECONDS) || 60
MsPerSecond == 1000        \* config.cacheTtl * 1000

\* the clock advances in steps of half the default TTL (30 s)
TickMs == (DefaultCacheTtl * MsPerSecond) \div 2

JsString(v) == [type |-> "string", value |-> v]

\* !config.apiKey: undefined and the empty string are falsy
Falsy(v) == ~Truthy(v) \/ (v.type = "string" /\ v.value = "")

ApiKeys == {JsUndefined, JsString(""), JsString("secret")}

\* the configurations the server is started with
Configs == [apiKey : ApiKeys, cacheTtl : {DefaultCacheTtl}, enableCache : BOOLEAN]

\* the configurations the cache is exercised with: two TTLs, cache on and off
CacheConfigs ==
    [apiKey : {JsString("secret")}, cacheTtl : {DefaultCacheTtl, DefaultCacheTtl \div 2},
     enableCache : BOOLEAN]

Quote == <<"\"">>

RECURSIVE JoinEntries(_, _)
\* "name":"value" for params[i..], separated by commas
JoinEntries(params, i) ==
    IF i > Len(params) THEN <<>>
    ELSE (IF i > 1 THEN <<",">> ELSE <<>>)
         \o Quote \o params[i][1] \o Quote \o <<":">> \o Quote \o params[i][2] \o Quote
         \o JoinEntries(params, i + 1)

\* JSON.stringify of an object of string properties: own properties are
\* written in insertion order
JSONstringify(params) == <<"{">> \o JoinEntries(params, 1) \o <<"}">>

\* const getCacheKey = (endpoint, params) => `${endpoint}:${JSON.stringify(params)}`
getCacheKey(endpoint, params) == endpoint \o <<":">> \o JSONstringify(params)

Endpoint == <<"n","b","a","-","d","a","t","a">>

ParamA == <<<<"a">>, <<"1">>>>
ParamB == <<<<"b">>, <<"2">>>>

\* req.query: the parsed query string, properties in order of appearance
Queries == {<<>>, <<ParamA, ParamB>>, <<ParamB, ParamA>>}

\* the keys of the direct cache calls
Keys == {getCacheKey(Endpoint, q) : q \in {<<>>, <<ParamA, ParamB>>}}

EmptyMap == [k \in {} |-> 0]

\* cache.delete(key)
MapDelete(c, key) == [k \in DOMAIN c \ {key} |-> c[k]]

\* cache.set(key, entry)
MapSet(c, key, entry) == [k \in DOMAIN c \cup {key} |-> IF k = key THEN entry ELSE c[k]]

\* getCachedData with the expiry test written <= instead of <
getCachedData_InclusiveTtl(c, cfg, key, t) ==
    IF ~cfg.enableCache THEN [ret |-> JsNull, cache |-> c]
    ELSE IF key \in DOMAIN c /\ t - c[key].timestamp <= cfg.cacheTtl * MsPerSecond
    THEN [ret |-> c[key].data, cache |-> c]
    ELSE [ret |-> JsNull, cache |-> MapDelete(c, key)]

\* getCachedData without cache.delete(key) on the expired branch
getCachedData_NoEvict(c, cfg, key, t) ==
    IF ~cfg.enableCache THEN [ret |-> JsNull, cache |-> c]
    ELSE IF key \in DOMAIN c /\ t - c[key].timestamp < cfg.cacheTtl * MsPerSecond
    THEN [ret |-> c[key].data, cache |-> c]
    ELSE [ret |-> JsNull, cache |-> c]

\* getCachedData(key) at time t: the value returned and the cache afterwards
getCachedData(c, cfg, key, t) ==
    IF ~cfg.enableCache THEN [ret |-> JsNull, cache |-> c]
    ELSE IF key \in DOMAIN c /\ t - c[key].timestamp < cfg.cacheTtl * MsPerSecond
    THEN [ret |-> c[key].data, cache |-> c]
    ELSE [ret |-> JsNull, cache |-> MapDelete(c, key)]

\* setCachedData without the enableCache test
setCachedData_Unguarded(c, cfg, key, data, t) ==
    MapSet(c, key, [data |-> data, timestamp |-> t])

\* setCachedData that only refreshes the timestamp of an entry already there
setCachedData_KeepData(c, cfg, key, data, t) ==
    IF ~cfg.enableCache THEN c
    ELSE IF key \in DOMAIN c
    THEN MapSet(c, key, [data |-> c[key].data, timestamp |-> t])
    ELSE MapSet(c, key, [data |-> data, timestamp |-> t])

\* setCachedData(key, data) at time t: the cache afterwards
setCachedData(c, cfg, key, data, t) ==
    IF ~cfg.enableCache THEN c
    ELSE MapSet(c, key, [data |-> data, timestamp |-> t])

\* Date.now() moves on
Tick ==
    /\ now < MaxTicks * TickMs
    /\ now' = now + TickMs

-----------------------------------------------------------------------------
(* The cache called directly *)

FixedView == NewTeamView(teamIdOf(NameBoston), NameBoston, NameLASpaced, FixedX, 0)

\* payloads stored through setCachedData
Payloads ==
    {JsObject(EmptyObject), JsObject(teamIdOf(NameBoston) :> FixedView)}

NeverSet == [called |-> FALSE]

CacheSet(key, data) ==
    /\ cache' = setCachedData(cache, config, key, data, now)
    /\ lastOp' = [op |-> "set", key |-> key, at |-> now, ret |-> JsUndefined]
    /\ written' = [written EXCEPT ![key] = [called |-> TRUE, data |-> data, timestamp |-> now]]
    /\ UNCHANGED <<config, now>>

CacheGet(key) ==
    LET got == getCachedData(cache, config, key, now)
    IN  /\ cache' = got.cache
        /\ lastOp' = [op |-> "get", key |-> key, at |-> now, ret |-> got.ret]
        /\ UNCHANGED <<config, now, written>>

CacheTick == Tick /\ UNCHANGED <<config, cache, lastOp, written>>

NoOp == [op |-> "none"]

CacheInit ==
    /\ config \in CacheConfigs
    /\ now = 0
    /\ cache = EmptyMap
    /\ lastOp = NoOp
    /\ written = [k \in Keys |-> NeverSet]

-----------------------------------------------------------------------------
(* GET /api/v1/nba-data *)

ReqIds == 1..MaxRequests

\* what axios.get resolves with (response.data)
UpstreamData ==
    {JsNull,
     JsArray(<<>>),
     JsArray(<<H2HGame(FixedX, FixedY)>>),
     JsArray(<<NoH2HGame, H2HGame(FixedY, FixedX)>>),
     JsArray(<<H2HGame(FixedX, FixedY), NoBookmakersGame>>),
     JsArray(<<NoMarketsGame, H2HGame(FixedX, FixedY)>>)}

HttpError(status, message) ==
    [code |-> "ERR_BAD_REQUEST",
     response |-> JsObject([status |-> status, message |-> message])]

\* what axios.get rejects with: a timeout (timeout: 10000), a non-2xx
\* response, or a failure without a response
UpstreamErrors ==
    {[code |-> "ECONNABORTED", response |-> JsUndefined],
     [code |-> "ENOTFOUND", response |-> JsUndefined],
     HttpError(401, JsString("bad key")),
     HttpError(404, JsUndefined),
     HttpError(429, JsString("quota"))}

\* the TypeError thrown inside transformDataForFrontend
TypeError == [code |-> "", response |-> JsUndefined]

Reply(status, body) == [status |-> status, body |-> body]

\* res.json(data): Express answers 200 unless res.status was called
OkReply(data) == Reply(200, data)

MissingKeyReply ==
    Reply(500, JsObject([error |-> "API key not configured",
                         message |-> "Please set ODDS_API_KEY environment variable"]))

\* the empty result reported as a generic failure
NoGamesReply_Generic == Reply(500, JsObject([message |-> "No upcoming NBA games found."]))

NoGamesReply == Reply(404, JsObject([message |-> "No upcoming NBA games found."]))

\* the catch block of the legacy /api/nba-data handler: always 500
ErrorReply_Legacy(error) ==
    Reply(500, JsObject([error |-> "Internal server error",
                         message |-> "Failed to fetch data from The Odds API."]))

\* the catch block
ErrorReply(error) ==
    IF error.code = "ECONNABORTED"
    THEN Reply(504, JsObject([error |-> "Request timeout",
                              message |-> "The odds API is taking too long to respond"]))
    ELSE IF Truthy(error.response)
    THEN Reply(error.response.value.status,
               JsObject([error |-> "External API error",
                         message |-> IF Falsy(error.response.value.message)
                                     THEN "Failed to fetch data from The Odds API"
                                     ELSE error.response.value.message.value]))
    ELSE Reply(500, JsObject([error |-> "Internal server error",
                              message |-> "An unexpected error occurred"]))

NewRequest == [pc |-> "new"]

\* the handler replies; `path` names the branch taken, `cause` what axios.get
\* had settled with, `calls` the upstream calls made, `stored` whether
\* cache.set ran
Finish(r, query, key, reply, path, cause, calls, stored) ==
    reqs' = [reqs EXCEPT ![r] =
                [pc |-> "done", query |-> query, cacheKey |-> key, reply |-> reply,
                 path |-> path, cause |-> cause, calls |-> calls, stored |-> stored]]

NoCause == [kind |-> "none"]

\* the test written config.apiKey === undefined
KeyMissing_OnlyUndefined(cfg) == cfg.apiKey.type = "undefined"

\* if (!config.apiKey)
KeyMissing(cfg) == Falsy(cfg.apiKey)

\* lines 302-326: from the cache lookup to the reply or to the await
\* (request ids are given in order of arrival)
HandleRequest(r, query) ==
    /\ reqs[r].pc = "new"
    /\ \A earlier \in 1..(r - 1) : reqs[earlier].pc # "new"
    /\ LET cacheKey == getCacheKey(Endpoint, query)
           got == getCachedData(cache, config, cacheKey, now)
       IN  /\ cache' = got.cache
           /\ IF Truthy(got.ret)
              THEN Finish(r, query, cacheKey, OkReply(got.ret), "hit", NoCause, 0, FALSE)
              ELSE IF KeyMissing(config)
              THEN Finish(r, query, cacheKey, MissingKeyReply, "nokey", NoCause, 0, FALSE)
              ELSE reqs' = [reqs EXCEPT ![r] =
                               [pc |-> "fetching", query |-> query,
                                cacheKey |-> cacheKey, calls |-> 1]]
    /\ UNCHANGED <<config, now>>

\* the handler with transform and setCachedData moved above the test of
\* response.data.length: an empty result is stored before the 404 reply
UpstreamResolves_StoreFirst(r, data) ==
    /\ reqs[r].pc = "fetching"
    /\ LET q == reqs[r].query
           key == reqs[r].cacheKey
           n == reqs[r].calls
       IN  IF Truthy(data) /\ Len(data.value) > 0
           THEN \E rs \in RandTapes(Len(data.value)) :
                  LET t == transformDataForFrontend(data.value, rs)
                  IN  IF t.threw
                      THEN /\ Finish(r, q, key, ErrorReply(TypeError), "threw", data, n, FALSE)
                           /\ cache' = cache
                      ELSE /\ cache' = setCachedData(cache, config, key,
                                                     JsObject(t.teamsData), now)
                           /\ Finish(r, q, key, OkReply(JsObject(t.teamsData)), "ok", data, n,
                                     config.enableCache)
           ELSE IF Truthy(data)
           THEN /\ cache' = setCachedData(cache, config, key, JsObject(EmptyObject), now)
                /\ Finish(r, q, key, NoGamesReply, "empty", data, n, FALSE)
           ELSE /\ Finish(r, q, key, ErrorReply(TypeError), "threw", data, n, FALSE)
                /\ cache' = cache
    /\ UNCHANGED <<config, now>>

\* lines 328-334: axios.get resolved with response.data = data
UpstreamResolves(r, data) ==
    /\ reqs[r].pc = "fetching"
    /\ LET q == reqs[r].query
           key == reqs[r].cacheKey
           n == reqs[r].calls
       IN  IF Truthy(data) /\ Len(data.value) > 0
           THEN \E rs \in RandTapes(Len(data.value)) :
                  LET t == transformDataForFrontend(data.value, rs)
                  IN  IF t.threw
                      THEN /\ Finish(r, q, key, ErrorReply(TypeError), "threw", data, n, FALSE)
                           /\ cache' = cache
                      ELSE /\ cache' = setCachedData(cache, config, key,
                                                     JsObject(t.teamsData), now)
                           /\ Finish(r, q, key, OkReply(JsObject(t.teamsData)), "ok", data, n,
                                     config.enableCache)
           ELSE /\ Finish(r, q, key, NoGamesReply, "empty", data, n, FALSE)
                /\ cache' = cache
    /\ UNCHANGED <<config, now>>

\* a catch block that calls axios.get once more before it gives up
UpstreamRejects_Retry(r, error) ==
    /\ reqs[r].pc = "fetching"
    /\ IF reqs[r].calls < 2
       THEN reqs' = [reqs EXCEPT ![r].calls = @ + 1]
       ELSE Finish(r, reqs[r].query, reqs[r].cacheKey, ErrorReply(error), "failed", error,
                   reqs[r].calls, FALSE)
    /\ UNCHANGED <<config, now, cache>>

\* lines 336-357: axios.get rejected with error
UpstreamRejects(r, error) ==
    /\ reqs[r].pc = "fetching"
    /\ Finish(r, reqs[r].query, reqs[r].cacheKey, ErrorReply(error), "failed", error,
              reqs[r].calls, FALSE)
    /\ UNCHANGED <<config, now, cache>>

ServerTick == Tick /\ UNCHANGED <<config, cache, reqs>>

ServerInit ==
    /\ config \in Configs
    /\ now = 0
    /\ cache = EmptyMap
    /\ reqs = [r \in ReqIds |-> NewRequest]

-----------------------------------------------------------------------------
(* transformDataForFrontend, one forEach callback at a time *)

TransformInit ==
    /\ apiData \in Batches
    /\ idx = 0
    /\ teamsData = EmptyObject
    /\ threw = FALSE

\* the forEach callback runs on the next game; a throw ends the loop
ForEachStep ==
    /\ ~threw
    /\ idx < Len(apiData)
    /\ \E r1 \in Rand, r2 \in Rand :
          LET step == ProcessGame(teamsData, apiData[idx + 1], r1, r2)
          IN  /\ teamsData' = step.teamsData
              /\ threw' = step.threw
    /\ idx' = idx + 1
    /\ UNCHANGED apiData

\* return teamsData
Returned == ~threw /\ idx = Len(apiData)

-----------------------------------------------------------------------------
(* calculateWinProbabilityFromOdds, in exact rational arithmetic *)

RECURSIVE Gcd(_, _)
Gcd(m, n) == IF n = 0 THEN m ELSE Gcd(n, m % n)

\* the fraction n / d (n >= 0, d >= 0) in lowest terms; 0 / 0 is NaN and is
\* written with denominator 0
Rat(n, d) ==
    IF d = 0 THEN [num |-> 0, den |-> 0]
    ELSE [num |-> n \div Gcd(n, d), den |-> d \div Gcd(n, d)]

RatDiv(a, b) == Rat(a.num * b.den, a.den * b.num)
RatAdd(a, b) == Rat(a.num * b.den + b.num * a.den, a.den * b.den)
RatMul(a, b) == Rat(a.num * b.num, a.den * b.den)
IsNaN(a) == a.den = 0
\* comparisons with NaN are false
RatGt(a, b) == ~IsNaN(a) /\ ~IsNaN(b) /\ a.num * b.den > b.num * a.den
RatEq(a, b) == ~IsNaN(a) /\ ~IsNaN(b) /\ a.num * b.den = b.num * a.den

\* Math.round of a non-negative rational: floor(x + 1/2); NaN stays NaN
MathRound(a) == IF IsNaN(a) THEN a ELSE Rat((2 * a.num + a.den) \div (2 * a.den), 1)

convertAmericanToProbability(odds) ==
    IF odds > 0 THEN Rat(100, odds + 100)
    ELSE Rat(-odds, -odds + 100)

NoOddsInsight == [text |-> "Odds data not available."]

\* `The betting market implies a ${pct}% chance for the favorite, the ${name}, to win.`
Insight(pct, name) == [text |-> "The betting market implies", pct |-> pct, favorite |-> name]

\* { [teamA.id]: pA, [teamB.id]: pB, insight }: a later property of the same
\* name replaces the earlier one
ProbObject(a, pA, b, pB, insight) ==
    [probs |-> [i \in {a.id, b.id} |-> IF i = b.id THEN pB ELSE pA],
     insight |-> insight]

\* calculateWinProbabilityFromOdds without the normalization step
calculateWinProbabilityFromOdds_Raw(a, b) ==
    IF ~Truthy(a.upcomingGame) \/ ~Truthy(b.upcomingGame)
    THEN ProbObject(a, Rat(50, 1), b, Rat(50, 1), NoOddsInsight)
    ELSE LET probA == RatMul(convertAmericanToProbability(a.upcomingGame.value.moneyline),
                             Rat(100, 1))
             probB == RatMul(convertAmericanToProbability(b.upcomingGame.value.moneyline),
                             Rat(100, 1))
             aWins == RatGt(probA, probB)
         IN  ProbObject(a, probA, b, probB,
                        Insight(MathRound(IF aWins THEN probA ELSE probB),
                                IF aWins THEN a.name ELSE b.name))

calculateWinProbabilityFromOdds(a, b) ==
    IF ~Truthy(a.upcomingGame) \/ ~Truthy(b.upcomingGame)
    THEN ProbObject(a, Rat(50, 1), b, Rat(50, 1), NoOddsInsight)
    ELSE LET probA == convertAmericanToProbability(a.upcomingGame.value.moneyline)
             probB == convertAmericanToProbability(b.upcomingGame.value.moneyline)
             totalProb == RatAdd(probA, probB)
             normalizedProbA == RatMul(RatDiv(probA, totalProb), Rat(100, 1))
             normalizedProbB == RatMul(RatDiv(probB, totalProb), Rat(100, 1))
             aWins == RatGt(normalizedProbA, normalizedProbB)
         IN  ProbObject(a, normalizedProbA, b, normalizedProbB,
                        Insight(MathRound(IF aWins THEN normalizedProbA ELSE normalizedProbB),
                                IF aWins THEN a.name ELSE b.name))

\* moneylines: multiples of 50, and the usual -110
Odds == {m * 50 : m \in (-MaxOddsMult)..MaxOddsMult} \cup {-110}

UpcomingGames ==
    {JsUndefined} \cup {JsObject([opponent |-> NameBoston, moneyline |-> m]) : m \in Odds}

Team(name, upcomingGame) ==
    [id |-> teamIdOf(name), name |-> name, upcomingGame |-> upcomingGame]

NotComputed == [insight |-> "not computed"]

\* the two selected teams: two entries of the team map, or the same entry twice
ProbInit ==
    /\ teamA \in {Team(NameLASpaced, g) : g \in UpcomingGames}
    /\ teamB \in {Team(NameBoston, g) : g \in UpcomingGames} \cup {teamA}
    /\ winProb = NotComputed

Calculate ==
    /\ winProb = NotComputed
    /\ winProb' = calculateWinProbabilityFromOdds(teamA, teamB)
    /\ UNCHANGED <<teamA, teamB>>

-----------------------------------------------------------------------------
(* Specifications: each part of the program runs with the others at rest *)

CacheIdle == lastOp = NoOp /\ written = [k \in Keys |-> NeverSet]
ServerIdle == reqs = [r \in ReqIds |-> NewRequest]
TransformIdle == apiData = <<>> /\ idx = 0 /\ teamsData = EmptyObject /\ threw = FALSE
ProbIdle ==
    /\ teamA = Team(NameLASpaced, JsUndefined)
    /\ teamB = Team(NameBoston, JsUndefined)
    /\ winProb = NotComputed

\* the request handlers, sharing the cache and the clock
Init == ServerInit /\ CacheIdle /\ TransformIdle /\ ProbIdle

Next ==
    \/ \E r \in ReqIds, query \in Queries :
          HandleRequest(r, query) /\ UNCHANGED <<lastOp, written, transformVars, probVars>>
    \/ \E r \in ReqIds, data \in UpstreamData :
          UpstreamResolves(r, data) /\ UNCHANGED <<lastOp, written, transformVars, probVars>>
    \/ \E r \in ReqIds, error \in UpstreamErrors :
          UpstreamRejects(r, error) /\ UNCHANGED <<lastOp, written, transformVars, probVars>>
    \/ ServerTick /\ UNCHANGED <<lastOp, written, transformVars, probVars>>

Spec == Init /\ [][Next]_vars

\* the rejection axios produces when `timeout: 10000` runs out
TimeoutError == [code |-> "ECONNABORTED", response |-> JsUndefined]

TimesOut(r) ==
    UpstreamRejects(r, TimeoutError) /\ UNCHANGED <<lastOp, written, transformVars, probVars>>

\* axios.get called without the timeout option: the promise may stay pending
AxiosTimeout_None == TRUE

\* axios.get is called with timeout: 10000, so a request that is still
\* pending after 10 s is rejected: the await does not stay pending for ever
AxiosTimeout == \A r \in ReqIds : WF_vars(TimesOut(r))

\* the request handlers, with the upstream timeout in force
SpecLive == Init /\ [][Next]_vars /\ AxiosTimeout

\* getCachedData and setCachedData called in any order
InitCache == CacheInit /\ ServerIdle /\ TransformIdle /\ ProbIdle

NextCache ==
    \/ \E key \in Keys, data \in Payloads :
          CacheSet(key, data) /\ UNCHANGED <<serverVars, transformVars, probVars>>
    \/ \E key \in Keys :
          CacheGet(key) /\ UNCHANGED <<serverVars, transformVars, probVars>>
    \/ CacheTick /\ UNCHANGED <<serverVars, transformVars, probVars>>

SpecCache == InitCache /\ [][NextCache]_vars

FixedConfig ==
    [apiKey |-> JsString("secret"), cacheTtl |-> DefaultCacheTtl, enableCache |-> TRUE]

ConfigIdle == config = FixedConfig /\ now = 0 /\ cache = EmptyMap

\* one call of transformDataForFrontend
InitTransform == TransformInit /\ ConfigIdle /\ CacheIdle /\ ServerIdle /\ ProbIdle

NextTransform ==
    ForEachStep /\ UNCHANGED <<cacheVars, serverVars, probVars>>

SpecTransform == InitTransform /\ [][NextTransform]_vars

\* one call of calculateWinProbabilityFromOdds
InitProb == ProbInit /\ ConfigIdle /\ CacheIdle /\ ServerIdle /\ TransformIdle

NextProb ==
    Calculate /\ UNCHANGED <<cacheVars, serverVars, transformVars>>

SpecProb == InitProb /\ [][NextProb]_vars

-----------------------------------------------------------------------------
(* Claims about the cache *)

Done(r) == reqs[r].pc = "done"

\* C1: with caching enabled, a getCachedData(k) made after setCachedData(k, v)
\* with no later set on k returns v while now - timestamp < cacheTtl * 1000,
\* and returns null once the TTL has elapsed.
C1_SetThenGet ==
    (config.enableCache /\ lastOp.op = "get" /\ written[lastOp.key].called) =>
        LET w == written[lastOp.key]
        IN  IF lastOp.at - w.timestamp < config.cacheTtl * 1000
            THEN lastOp.ret = w.data
            ELSE lastOp.ret = JsNull

\* a get that returned the stored value after the clock had moved on
C1_Witness ==
    /\ config.enableCache
    /\ lastOp.op = "get"
    /\ written[lastOp.key].called
    /\ lastOp.at > written[lastOp.key].timestamp
    /\ lastOp.ret = written[lastOp.key].data

\* C2: with caching disabled, every get reports null and no set changes the
\* cache map, which stays as it was created (empty).
C2_DisabledCache ==
    ~config.enableCache =>
        /\ DOMAIN cache = {}
        /\ lastOp.op = "get" => lastOp.ret = JsNull

\* a get made right after a set on the same key, caching disabled
C2_Witness ==
    /\ ~config.enableCache
    /\ lastOp.op = "get"
    /\ written[lastOp.key].called
    /\ written[lastOp.key].timestamp = lastOp.at

-----------------------------------------------------------------------------
(* Claims about GET /api/v1/nba-data *)

\* C3: when config.apiKey is missing, every request is answered 500 with
\* error 'API key not configured' and no request ever makes an upstream call.
C3_MissingKeyNoUpstreamCall ==
    Falsy(config.apiKey) =>
        \A r \in ReqIds :
            /\ reqs[r].pc # "fetching"
            /\ Done(r) =>
                  /\ reqs[r].reply.status = 500
                  /\ reqs[r].reply.body.value.error = "API key not configured"
                  /\ reqs[r].calls = 0

\* both requests answered without a key, caching enabled, the clock moved on
C3_Witness ==
    /\ Falsy(config.apiKey)
    /\ config.enableCache
    /\ now > 0
    /\ \A r \in ReqIds : Done(r)

\* C4: a rejected upstream call is answered 504 if it timed out, else with the
\* upstream's status if there was a response, else 500.
C4_FailureStatus ==
    \A r \in ReqIds :
        (Done(r) /\ reqs[r].path = "failed") =>
            LET error == reqs[r].cause
            IN  reqs[r].reply.status =
                    IF error.code = "ECONNABORTED" THEN 504
                    ELSE IF error.response.type = "object"
                         THEN error.response.value.status
                         ELSE 500

\* one request timed out (504) and another relayed the upstream's 429
C4_Witness ==
    \E r1 \in ReqIds, r2 \in ReqIds :
        /\ Done(r1) /\ reqs[r1].path = "failed" /\ reqs[r1].reply.status = 504
        /\ Done(r2) /\ reqs[r2].path = "failed" /\ reqs[r2].reply.status = 429

EmptyResult(r) == Done(r) /\ reqs[r].path = "empty"
FetchFailed(r) == Done(r) /\ reqs[r].path = "failed"

\* C5 as stated: an empty result is answered 404, a status no failed fetch is
\* answered with.
C5_NotFoundDistinctStatus ==
    \A r \in ReqIds :
        EmptyResult(r) =>
            /\ reqs[r].reply.status = 404
            /\ \A f \in ReqIds : FetchFailed(f) => reqs[f].reply.status # 404

\* C5 as amended: an empty result is answered 404 with a body that has a
\* message and no error field; every failed fetch is answered with a body that
\* has an error field, and with a status other than 404 unless the upstream
\* itself answered 404.
C5_NotFoundForEmpty ==
    \A r \in ReqIds :
        EmptyResult(r) =>
            /\ reqs[r].reply.status = 404
            /\ DOMAIN reqs[r].reply.body.value = {"message"}
            /\ \A f \in ReqIds :
                  FetchFailed(f) =>
                      /\ "error" \in DOMAIN reqs[f].reply.body.value
                      /\ reqs[f].reply.status = 404 =>
                            /\ reqs[f].cause.response.type = "object"
                            /\ reqs[f].cause.response.value.status = 404

\* an empty array and a missing body were both answered
C5_Witness ==
    \E r1 \in ReqIds, r2 \in ReqIds :
        /\ EmptyResult(r1) /\ reqs[r1].cause = JsNull
        /\ EmptyResult(r2) /\ reqs[r2].cause = JsArray(<<>>)

-----------------------------------------------------------------------------
(* Claims about transformDataForFrontend *)

HasMarkets(game) ==
    /\ "bookmakers" \in DOMAIN game
    /\ Len(game.bookmakers) > 0
    /\ "markets" \in DOMAIN game.bookmakers[1]

IsH2H(market) == market.key = "h2h"

\* the head-to-head markets of the game's first bookmaker
H2HMarketsOf(game) ==
    IF HasMarkets(game) THEN SelectSeq(game.bookmakers[1].markets, IsH2H) ELSE <<>>

\* the two outcomes of the first head-to-head market of the first bookmaker
QuotedPair(game) ==
    LET h == H2HMarketsOf(game)
    IN  IF Len(h) > 0 /\ Len(h[1].outcomes) = 2 THEN h[1].outcomes ELSE <<>>

NoH2HQuoted(game) == HasMarkets(game) /\ Len(H2HMarketsOf(game)) = 0

\* the bookmakers array is missing, or the first bookmaker has no markets array
Malformed(game) ==
    \/ "bookmakers" \notin DOMAIN game
    \/ Len(game.bookmakers) > 0 /\ "markets" \notin DOMAIN game.bookmakers[1]

\* the view was made from outcome k of the pair
MadeFrom(view, pair, k) ==
    /\ view.name = pair[k].name
    /\ view.price = pair[k].price
    /\ view.upcomingGame = [opponent |-> pair[3 - k].name, moneyline |-> pair[k].price]

\* C6: a batch of one game whose first bookmaker quotes (X, pX), (Y, pY) head
\* to head, X and Y having distinct ids, yields exactly the two TeamViews of X
\* and Y, each with its own price and moneyline and the other as opponent.
C6_TwoTeamViews ==
    (/\ Len(apiData) = 1
     /\ idx = 1
     /\ Len(QuotedPair(apiData[1])) = 2
     /\ teamIdOf(QuotedPair(apiData[1])[1].name) # teamIdOf(QuotedPair(apiData[1])[2].name))
    => LET pair == QuotedPair(apiData[1])
           idX == teamIdOf(pair[1].name)
           idY == teamIdOf(pair[2].name)
       IN  /\ ~threw
           /\ DOMAIN teamsData = {idX, idY}
           /\ MadeFrom(teamsData[idX], pair, 1)
           /\ MadeFrom(teamsData[idY], pair, 2)

\* C7: a game whose first bookmaker quotes no h2h market does not make the
\* transform throw and contributes no TeamView (every TeamView comes from
\* another game), and the teams of the other games are all there.
C7_NoH2HGameSkipped ==
    \A i \in 1..idx :
        NoH2HQuoted(apiData[i]) =>
            /\ ~(threw /\ i = idx)
            /\ \A id \in DOMAIN teamsData :
                  \E j \in (1..idx) \ {i}, k \in 1..2 :
                      /\ Len(QuotedPair(apiData[j])) = 2
                      /\ MadeFrom(teamsData[id], QuotedPair(apiData[j]), k)
            /\ ~threw =>
                  \A j \in (1..idx) \ {i}, k \in 1..2 :
                      Len(QuotedPair(apiData[j])) = 2 =>
                          teamIdOf(QuotedPair(apiData[j])[k].name)
                              \in DOMAIN teamsData \cup InheritedKeys

\* a game without h2h came first and the game after it gave its TeamViews
C7_Witness ==
    /\ idx = 2
    /\ ~threw
    /\ NoH2HQuoted(apiData[1])
    /\ Cardinality(DOMAIN teamsData) = 2

\* C8 as stated: a game without a bookmakers array, or whose first bookmaker
\* has no markets array, never makes the transform throw.
C8_MalformedSkipped ==
    \A i \in 1..idx : Malformed(apiData[i]) => ~(threw /\ i = idx)

\* no TeamView that exists is changed or removed by a later callback
NeverMutated ==
    \A id \in DOMAIN teamsData :
        id \in DOMAIN teamsData' /\ teamsData'[id] = teamsData[id]

\* C9: within one pass, once a TeamView exists for an id, the callbacks that
\* follow leave it as it is, whatever outcomes they see.
C9_FirstSeenWins == [][NeverMutated]_vars

\* the second game names a team under an id that exists, with another spelling
C9_Witness ==
    /\ idx = 2
    /\ ~threw
    /\ Len(QuotedPair(apiData[2])) = 2
    /\ \E k \in 1..2 :
          LET o == QuotedPair(apiData[2])[k]
          IN  /\ teamIdOf(o.name) \in DOMAIN teamsData
              /\ teamsData[teamIdOf(o.name)].name # o.name

-----------------------------------------------------------------------------
(* Claims about calculateWinProbabilityFromOdds *)

Computed == "probs" \in DOMAIN winProb

HasOdds(team) == team.upcomingGame.type = "object"

MoneylineOf(team) == team.upcomingGame.value.moneyline

\* rawProb = 100/(m+100) for m > 0 and -m/(-m+100) otherwise
RawProb(m) == IF m > 0 THEN Rat(100, m + 100) ELSE Rat(-m, 100 - m)

\* C10: for nonzero moneylines a and b the two percentages returned sum to
\* 100, each being rawProb / (rawProbA + rawProbB) * 100.
C10_SumTo100 ==
    (/\ Computed
     /\ HasOdds(teamA) /\ HasOdds(teamB)
     /\ MoneylineOf(teamA) # 0 /\ MoneylineOf(teamB) # 0)
    => LET pA == winProb.probs[teamA.id]
           pB == winProb.probs[teamB.id]
           rawA == RawProb(MoneylineOf(teamA))
           rawB == RawProb(MoneylineOf(teamB))
       IN  /\ RatEq(RatAdd(pA, pB), Rat(100, 1))
           /\ RatEq(RatMul(pA, RatAdd(rawA, rawB)), RatMul(rawA, Rat(100, 1)))
           /\ RatEq(RatMul(pB, RatAdd(rawA, rawB)), RatMul(rawB, Rat(100, 1)))

\* +150 against -200: the percentages are 37.5 and 62.5
C10_Witness ==
    /\ Computed
    /\ HasOdds(teamA) /\ HasOdds(teamB)
    /\ MoneylineOf(teamA) = 150 /\ MoneylineOf(teamB) = -200
    /\ winProb.probs[teamA.id] = Rat(75, 2)
    /\ winProb.probs[teamB.id] = Rat(125, 2)

\* Math.round of a non-negative fraction n / d, as an integer
RoundedPct(p) == (2 * p.num + p.den) \div (2 * p.den)

\* the insight names `team` with its rounded percentage
NamedFavorite(team) ==
    /\ winProb.insight.favorite = team.name
    /\ winProb.insight.pct = Rat(RoundedPct(winProb.probs[team.id]), 1)

\* C11 as stated: for every pair of teams with (nonzero) odds the insight
\* names a team whose normalized percentage is greater than 50, with that
\* team's rounded percentage.
C11_FavoriteAbove50 ==
    (/\ Computed
     /\ HasOdds(teamA) /\ HasOdds(teamB)
     /\ MoneylineOf(teamA) # 0 /\ MoneylineOf(teamB) # 0)
    => \E team \in {teamA, teamB} :
          /\ RatGt(winProb.probs[team.id], Rat(50, 1))
          /\ NamedFavorite(team)

Started(r) == reqs[r].pc # "new"

\* the same parameters, whatever their order
SameParameters(q1, q2) ==
    {q1[i] : i \in DOMAIN q1} = {q2[i] : i \in DOMAIN q2}

\* C12 as stated: two requests carrying the same query parameters, in any
\* order, are given the same cache key.
C12_KeyIgnoresParameterOrder ==
    \A r1, r2 \in ReqIds :
        (Started(r1) /\ Started(r2) /\ SameParameters(reqs[r1].query, reqs[r2].query))
        => reqs[r1].cacheKey = reqs[r2].cacheKey

CallsOf(r) == IF Started(r) THEN reqs[r].calls ELSE 0

CacheHit(r) == Done(r) /\ reqs[r].path = "hit"

\* C13: no request makes more than one upstream call; a request answered from
\* the cache makes none and stores nothing, and the step that answers it goes
\* from the lookup straight to the reply, sends the payload the cache holds
\* under its key and leaves the cache as it is.
C13_AtMostOneUpstreamCall ==
    /\ [](\A r \in ReqIds :
             /\ CallsOf(r) <= 1
             /\ CacheHit(r) => (reqs[r].calls = 0 /\ ~reqs[r].stored))
    /\ [][\A r \in ReqIds :
             (~CacheHit(r) /\ reqs'[r].pc = "done" /\ reqs'[r].path = "hit")
             => /\ reqs[r].pc = "new"
                /\ reqs'[r].cacheKey \in DOMAIN cache
                /\ reqs'[r].reply = OkReply(cache[reqs'[r].cacheKey].data)
                /\ cache' = cache]_vars

C13_Witness ==
    \E r1, r2 \in ReqIds :
        /\ Done(r1) /\ reqs[r1].path = "ok" /\ reqs[r1].calls = 1
        /\ CacheHit(r2) /\ reqs[r2].calls = 0
        /\ reqs[r2].cacheKey = reqs[r1].cacheKey
        /\ reqs[r2].reply = reqs[r1].reply

\* a step of getCachedData in the direct cache specification
GetStep == lastOp'.op = "get" /\ now' = now

Fresh(key) ==
    /\ key \in DOMAIN cache
    /\ now - cache[key].timestamp < config.cacheTtl * MsPerSecond

\* C14: a lookup returns the payload exactly when the key has an entry with
\* now - timestamp < ttl; when it returns null the cache holds no entry for
\* the key afterwards, and the entries under all other keys are as before.
C14_ExpiredEntryEvicted ==
    [][GetStep =>
         LET key == lastOp'.key
         IN  /\ (lastOp'.ret # JsNull) <=> Fresh(key)
             /\ Fresh(key) => lastOp'.ret = cache[key].data
             /\ (lastOp'.ret = JsNull) => key \notin DOMAIN cache'
             /\ \A other \in DOMAIN cache \ {key} :
                    other \in DOMAIN cache' /\ cache'[other] = cache[other]
             /\ DOMAIN cache' \subseteq DOMAIN cache]_vars

\* an expired entry has just been looked up and is gone, another key is still cached
C14_Witness ==
    /\ lastOp.op = "get" /\ lastOp.ret = JsNull
    /\ written[lastOp.key].called
    /\ now - written[lastOp.key].timestamp >= config.cacheTtl * MsPerSecond
    /\ lastOp.at = now
    /\ config.enableCache
    /\ lastOp.key \notin DOMAIN cache
    /\ \E other \in DOMAIN cache : other # lastOp.key

\* C15: under the upstream timeout every request that entered the handler
\* is answered, and once it is answered nothing more is sent for it: its
\* reply and its path stay what they are.
C15_EveryRequestAnswered ==
    /\ \A r \in ReqIds : Started(r) ~> Done(r)
    /\ [][\A r \in ReqIds : Done(r) => reqs'[r] = reqs[r]]_vars
    /\ [](\A r \in ReqIds :
             Done(r) => reqs[r].path \in {"hit", "nokey", "ok", "empty", "threw", "failed"})

\* a request ended by the timeout, another by a stored success
C15_Witness ==
    \E r1, r2 \in ReqIds :
        /\ Done(r1) /\ reqs[r1].path = "failed" /\ reqs[r1].cause = TimeoutError
        /\ reqs[r1].reply.status = 504
        /\ Done(r2) /\ reqs[r2].path = "ok" /\ reqs[r2].reply.status = 200

Succeeded(r) == Done(r) /\ reqs[r].path = "ok"

\* the reply of r is what one call of transformDataForFrontend returns for
\* the upstream data r received
OneTransformPass(r) ==
    /\ reqs[r].cause.type = "array"
    /\ \E rs \in RandTapes(Len(reqs[r].cause.value)) :
          LET t == transformDataForFrontend(reqs[r].cause.value, rs)
          IN  ~t.threw /\ reqs[r].reply = OkReply(JsObject(t.teamsData))

WrittenBy(key, r) ==
    /\ Succeeded(r) /\ reqs[r].stored
    /\ reqs[r].cacheKey = key
    /\ reqs[r].reply = OkReply(cache[key].data)

StoreStep(r) == reqs[r].pc = "fetching" /\ reqs'[r].pc = "done" /\ reqs'[r].path = "ok"

\* C16: in every interleaving each cache entry is a (data, timestamp) pair
\* whose data is the whole reply of one successful request, itself the output
\* of one transform pass; every cache hit sends the whole reply of one such
\* request; and a store after a miss, of which there was exactly one
\* upstream call, puts its own payload and the current time under its key,
\* whatever was there, and touches no other key.
C16_WholeEntryReplacement ==
    /\ [](\A key \in DOMAIN cache :
             /\ DOMAIN cache[key] = {"data", "timestamp"}
             /\ \E r \in ReqIds : WrittenBy(key, r) /\ OneTransformPass(r))
    /\ [](\A r \in ReqIds :
             CacheHit(r) => \E w \in ReqIds \ {r} :
                               /\ Succeeded(w) /\ OneTransformPass(w)
                               /\ reqs[w].cacheKey = reqs[r].cacheKey
                               /\ reqs[w].reply = reqs[r].reply)
    /\ [][\A r \in ReqIds :
             StoreStep(r)
             => /\ reqs'[r].calls = 1
                /\ cache' = IF config.enableCache
                            THEN MapSet(cache, reqs'[r].cacheKey,
                                        [data |-> reqs'[r].reply.body, timestamp |-> now])
                            ELSE cache]_vars

\* two misses on one key at the same instant: each made its own upstream
\* call, the replies differ, and the entry is the whole reply of one of them
C16_Witness ==
    \E r1, r2 \in ReqIds :
        /\ r1 # r2 /\ config.enableCache /\ now = 0
        /\ Succeeded(r1) /\ Succeeded(r2)
        /\ reqs[r1].cacheKey = reqs[r2].cacheKey
        /\ reqs[r1].calls = 1 /\ reqs[r2].calls = 1
        /\ reqs[r1].reply # reqs[r2].reply
        /\ reqs[r1].cacheKey \in DOMAIN cache
        /\ cache[reqs[r1].cacheKey].data = reqs[r2].reply.body

StepOf(r) == reqs'[r] # reqs[r]

LookupStep(r) == reqs[r].pc = "new" /\ reqs'[r].pc # "new"

\* C17: only the step that ends a request on the success path adds or
\* replaces a cache entry. Every other step of a request leaves all entries as
\* they are, except that its lookup removes the entry of its own key when
\* that entry has expired; a step of no request leaves the cache alone; and
\* no request that ended another way is recorded as having stored.
C17_CacheWrittenOnlyOnSuccess ==
    /\ [][\A r \in ReqIds :
             (StepOf(r) /\ ~StoreStep(r))
             => /\ DOMAIN cache' \subseteq DOMAIN cache
                /\ \A key \in DOMAIN cache' : cache'[key] = cache[key]
                /\ \A key \in DOMAIN cache \ DOMAIN cache' :
                      /\ LookupStep(r)
                      /\ key = reqs'[r].cacheKey
                      /\ ~Fresh(key)]_vars
    /\ [][(\A r \in ReqIds : ~StepOf(r)) => cache' = cache]_vars
    /\ [](\A r \in ReqIds : (Done(r) /\ ~Succeeded(r)) => ~reqs[r].stored)
    /\ [](\A r \in ReqIds : CacheHit(r) => reqs[r].reply.status = 200)

\* a request found the entry of its key expired, evicted it and then failed:
\* nothing is cached under the key afterwards
C17_Witness ==
    \E r1, r2 \in ReqIds :
        /\ config.enableCache
        /\ Succeeded(r1) /\ reqs[r1].stored
        /\ Done(r2) /\ reqs[r2].path \in {"empty", "failed", "threw"}
        /\ reqs[r2].cacheKey = reqs[r1].cacheKey
        /\ reqs[r2].cacheKey \notin DOMAIN cache

=============================================================================
